---- MODULE Spec2Model ----
(***************************************************************************)
(* Model of boagent's API module, src/boagent/api/api.py: the /query       *)
(* pipeline (get_metrics and its helpers) and the /csv window parser       *)
(* (parse_date_info).                                                      *)
(*                                                                         *)
(* Python floats are modelled as exact rationals [n, d] in lowest terms    *)
(* with d > 0, timestamps as whole seconds.  None is the empty tuple <<>>  *)
(* and a present value x is <<x>>.  Python dicts are functions whose       *)
(* DOMAIN is the set of keys present.                                      *)
(***************************************************************************)
EXTENDS Integers, Sequences, FiniteSets, TLC

VARIABLES
    pc,                  \* position of the request being served
    req,                 \* the arguments get_metrics was called with
    now,                 \* time.time() read at line 110
    start_time,          \* local start_time of get_metrics
    end_time,            \* local end_time of get_metrics
    lifetime,            \* local lifetime of get_metrics (rational)
    ratio,               \* local ratio of get_metrics (rational)
    hwFile,              \* content of settings.hardware_file_path on disk
    hw,                  \* outcome of get_hardware_data for this request
    power_data,          \* what get_power_data returned, None if not called
    host_avg_consumption,\* local host_avg_consumption of get_metrics
    usage,               \* the usage dict sent to the impact service
    boaviztapi_data,     \* the impact service's answer
    res,                 \* the report under construction
    csv                  \* outcome of parse_date_info for a /csv request

vars == <<pc, req, now, start_time, end_time, lifetime, ratio, hwFile, hw,
          power_data, host_avg_consumption, usage, boaviztapi_data, res, csv>>

-----------------------------------------------------------------------------
(* Bounds of the model *)

NowBase == 100000000
MaxLifetime == 2
MaxSamples == 2
MaxImpact == 2
MaxLen == 3

(* settings.seconds_in_one_year and the literals of the code *)
SecondsInOneYear == 31536000
OneHour == 3600
MicroWatts == 1000000

None == <<>>
Some(x) == <<x>>

-----------------------------------------------------------------------------
(* Exact arithmetic standing for Python's float arithmetic *)

Abs(x) == IF x < 0 THEN -x ELSE x

RECURSIVE GCD(_, _)
GCD(a, b) == IF b = 0 THEN a ELSE GCD(b, a % b)

Frac(n, d) ==
    LET g == GCD(Abs(n), Abs(d))
        s == IF d < 0 THEN -1 ELSE 1
    IN  [n |-> s * (n \div g), d |-> s * (d \div g)]

RInt(i) == [n |-> i, d |-> 1]
RMul(a, b) == Frac(a.n * b.n, a.d * b.d)
RAdd(a, b) == Frac(a.n * b.d + b.n * a.d, a.d * b.d)
RLeq(a, b) == a.n * b.d <= b.n * a.d

-----------------------------------------------------------------------------
(* Inputs *)

Clock == {NowBase}

\* start_time/end_time as the routes pass them: 0 when the parameter is absent
StartTimes == {0, NowBase - 3599, NowBase - OneHour,
               NowBase - SecondsInOneYear, NowBase - 2 * SecondsInOneYear}
EndTimes == {0, NowBase}
Lifetimes == 0..MaxLifetime
Locations == {None, Some(""), Some("FRA")}

Requests ==
    [start_time : StartTimes, end_time : EndTimes, verbose : BOOLEAN,
     location : Locations, measure_power : BOOLEAN, lifetime : Lifetimes,
     fetch_hardware : BOOLEAN]

\* Python truthiness of a float, of Optional[str] and of Optional[float]
TruthyNumber(x) == x # 0
TruthyLocation(location) == location # None /\ location[1] # ""
TruthyConsumption(c) == c # None /\ c[1].n # 0

-----------------------------------------------------------------------------
(* get_metrics, lines 110-120: ratio, window and lifetime *)

\* line 112 raises ZeroDivisionError when lifetime * seconds_in_one_year is 0.0
RatioRaises(st, et, lt) ==
    TruthyNumber(st) /\ TruthyNumber(et) /\ lt * SecondsInOneYear = 0

\* variant: "or" in place of "and" at line 111
WindowRatioEitherBound(st, et, lt) ==
    IF TruthyNumber(st) \/ TruthyNumber(et)
    THEN Frac(et - st, lt * SecondsInOneYear)
    ELSE RInt(1)

WindowRatio(st, et, lt) ==
    IF TruthyNumber(st) /\ TruthyNumber(et)
    THEN Frac(et - st, lt * SecondsInOneYear)
    ELSE RInt(1)

ResolveStart(st, t) == IF st = 0 THEN t - OneHour ELSE st
ResolveEnd(et, t) == IF et = 0 THEN t ELSE et

\* lines 119-120, on the resolved window
EffectiveLifetime(st, et, lt) ==
    IF et - st >= lt * SecondsInOneYear
    THEN Frac(et - st, SecondsInOneYear)
    ELSE RInt(lt)

-----------------------------------------------------------------------------
(* get_hardware_data and its helpers, lines 276-295 *)

FileStates == {"valid", "corrupt"}
\* what one run of the collector leaves behind: a parsable file, an
\* unparsable one, or nothing written (the file stays as it was)
CollectorOutcomes == {"valid", "corrupt", "none"}

\* build_hardware_data: run() does not check the exit status
build_hardware_data(file, outcome) == IF outcome = "none" THEN file ELSE outcome

\* read_hardware_data: open + json.load raise unless the file parses
read_hardware_data(file) ==
    IF file = "valid" THEN [ok |-> TRUE, data |-> Some("inventory")]
    ELSE [ok |-> FALSE, data |-> None]

\* variant: the except branch re-reads without running the collector
get_hardware_data_no_rebuild(fetch_hardware, file, o1, o2) ==
    LET f1 == IF fetch_hardware THEN build_hardware_data(file, o1) ELSE file
        c1 == IF fetch_hardware THEN <<"build">> ELSE <<>>
        r1 == read_hardware_data(f1)
    IN  IF r1.ok
        THEN [file |-> f1, calls |-> c1 \o <<"read_ok">>,
              raised |-> FALSE, data |-> r1.data]
        ELSE [file |-> f1, calls |-> c1 \o <<"read_fail", "read_fail">>,
              raised |-> TRUE, data |-> None]

get_hardware_data(fetch_hardware, file, o1, o2) ==
    LET f1 == IF fetch_hardware THEN build_hardware_data(file, o1) ELSE file
        c1 == IF fetch_hardware THEN <<"build">> ELSE <<>>
        r1 == read_hardware_data(f1)
    IN  IF r1.ok
        THEN [file |-> f1, calls |-> c1 \o <<"read_ok">>,
              raised |-> FALSE, data |-> r1.data]
        ELSE LET f2 == build_hardware_data(f1, o2)
                 r2 == read_hardware_data(f2)
             IN  [file |-> f2,
                  calls |-> c1 \o <<"read_fail", "build",
                                    IF r2.ok THEN "read_ok" ELSE "read_fail">>,
                  raised |-> ~r2.ok, data |-> r2.data]

-----------------------------------------------------------------------------
(* get_power_data, compute_average_consumption, format_usage_request *)

LowConfidenceWarning == "The time window is lower than one hour"

RECURSIVE TotalHost(_)
TotalHost(samples) ==
    IF samples = <<>> THEN 0
    ELSE samples[1].host.consumption + TotalHost(Tail(samples))

compute_average_consumption(samples) ==
    IF Len(samples) > 0
    THEN Frac(TotalHost(samples), Len(samples) * MicroWatts)
    ELSE RInt(0)

get_power_data(st, et, data) ==
    LET InWindow(e) == st <= e.host.timestamp /\ e.host.timestamp <= et
        kept == SelectSeq(data, InWindow)
        base == [raw_data |-> kept,
                 host_avg_consumption |-> compute_average_consumption(kept)]
    IN  IF et - st <= OneHour
        THEN base @@ ("warning" :> LowConfidenceWarning)
        ELSE base

format_usage_request(st, et, avg, location) ==
    LET k1 == "hours_use_time" :> Frac(et - st, OneHour)
        k2 == IF TruthyLocation(location)
              THEN k1 @@ ("usage_location" :> location[1]) ELSE k1
    IN  IF TruthyConsumption(avg)
        THEN k2 @@ ("hours_electrical_consumption" :> avg[1]) ELSE k2

Samples(st, et) ==
    [host : [timestamp : {st - 1, et}, consumption : {0, 1000000, 3000000}]]

RECURSIVE SeqsUpTo(_, _)
SeqsUpTo(S, k) ==
    IF k = 0 THEN {<<>>}
    ELSE LET shorter == SeqsUpTo(S, k - 1)
         IN  shorter \cup {Append(q, x) : q \in shorter, x \in S}

PowerFiles(st, et) == SeqsUpTo(Samples(st, et), MaxSamples)

\* get_metrics reads host_avg_consumption and warning, never raw_data
KeysRead(pd) == [k \in DOMAIN pd \ {"raw_data"} |-> pd[k]]

-----------------------------------------------------------------------------
(* The impact service's answer and the report, lines 133-235 *)

Statuses == {"MODIFY", "SET", "UNCHANGED"}

ImpactReports ==
    {[impacts |-> [gwp |-> [manufacture |-> m, use |-> u],
                   adp |-> [manufacture |-> 1, use |-> 1],
                   pe  |-> [manufacture |-> 1, use |-> 1]],
      verbose |-> [USAGE |-> [gwp_factor |-> [value |-> 1],
                              usage_location |-> [status |-> st]]]]
        : m \in 1..MaxImpact, u \in 0..MaxImpact, st \in Statuses}

Metric(value, type, unit) == [value |-> value, type |-> type, unit |-> unit]

\* variant: the ratio applied to the sum, (manufacture + use) * ratio
CalculatedEmissionsAllScaled(manufacture, use, r) ==
    RMul(RInt(manufacture + use), r)

\* line 164
CalculatedEmissions(manufacture, use, r) ==
    RAdd(RMul(RInt(manufacture), r), RInt(use))

\* lines 186, 193, 200
Embedded(manufacture, r) == RMul(RInt(manufacture), r)

MixConsidered == "Carbon intensity of the elextricity mixed. Mix considered : "
WarningModify == " WARNING : The provided trigram doesn't match any existing country."
WarningSet == "WARNING : As no information was provided about your location"

\* variant: "else" in place of 'elif usage_location_status == "SET"'
CarbonIntensityDescriptionElse(location, status) ==
    LET base == <<MixConsidered, IF location = None THEN "None" ELSE location[1]>>
    IN  IF status = "MODIFY" THEN Append(base, WarningModify)
        ELSE Append(base, WarningSet)

\* lines 216 and 222-226: the description as the list of its pieces
CarbonIntensityDescription(location, status) ==
    LET base == <<MixConsidered, IF location = None THEN "None" ELSE location[1]>>
    IN  IF status = "MODIFY" THEN Append(base, WarningModify)
        ELSE IF status = "SET" THEN Append(base, WarningSet)
        ELSE base

\* lines 139-160
OperationalFields(measure_power, data) ==
    IF measure_power
    THEN [total_operational_emissions |->
              Metric(RInt(data.impacts.gwp.use), "gauge", "kg CO2eq"),
          total_operational_abiotic_resources_depletion |->
              Metric(RInt(data.impacts.adp.use), "gauge", "kgSbeq"),
          total_operational_primary_energy_consumed |->
              Metric(RInt(data.impacts.pe.use), "gauge", "MJ")]
    ELSE <<>>

\* lines 206-233: the assignment at line 206 replaces the dict of line 124
EmissionsCalculationData(avg, location, verbose, hardware_data, data) ==
    LET ecd == [average_power_measured |-> Metric(avg, "gauge", "W"),
                electricity_carbon_intensity |->
                  [value |-> data.verbose.USAGE.gwp_factor.value,
                   description |-> CarbonIntensityDescription(
                       location, data.verbose.USAGE.usage_location.status),
                   type |-> "gauge", unit |-> "kg CO2eq / kWh"]]
    IN  IF verbose
        THEN ecd @@ ("raw_data" :> [hardware_data |-> hardware_data,
                                    resources_data |-> "not implemented yet",
                                    boaviztapi_data |-> data])
        ELSE ecd

\* lines 139-235: res after the report is assembled
Report(early, st, et, r, avg, rq, hardware_data, data) ==
    [emissions_calculation_data |->
         EmissionsCalculationData(avg, rq.location, rq.verbose, hardware_data, data),
     calculated_emissions |->
         Metric(CalculatedEmissions(data.impacts.gwp.manufacture,
                                    data.impacts.gwp.use, r), "gauge", "kg CO2eq"),
     start_time |-> Metric(st, "counter", "s"),
     end_time |-> Metric(et, "counter", "s"),
     embedded_emissions |->
         Metric(Embedded(data.impacts.gwp.manufacture, r), "gauge", "kg CO2eq"),
     embedded_abiotic_resources_depletion |->
         Metric(Embedded(data.impacts.adp.manufacture, r), "gauge", "kg Sbeq"),
     embedded_primary_energy |->
         Metric(Embedded(data.impacts.pe.manufacture, r), "gauge", "MJ")]
    @@ OperationalFields(rq.measure_power, data) @@ early

-----------------------------------------------------------------------------
(* parse_date_info, lines 351-372.  Strings are sequences of characters. *)

Digits == {"2", "4"}
Alphabet == Digits \cup {"-", "d", "h", "m", "x"}
Untils == SeqsUpTo(Alphabet, MaxLen)
Sinces == {"now", "yesterday"}

DigitValue(c) == IF c = "2" THEN 2 ELSE 4

EndsWith(str, c) == Len(str) > 0 /\ str[Len(str)] = c

\* str.replace(c, ''): every occurrence goes
Remove(str, c) == SelectSeq(str, LAMBDA x : x # c)

AllDigits(str) == Len(str) > 0 /\ \A i \in 1..Len(str) : str[i] \in Digits

\* int(str) accepts an optional sign followed by digits
IsInt(str) ==
    \/ AllDigits(str)
    \/ Len(str) > 1 /\ str[1] = "-" /\ AllDigits(Tail(str))

RECURSIVE Decimal(_)
Decimal(str) ==
    IF str = <<>> THEN 0
    ELSE 10 * Decimal(SubSeq(str, 1, Len(str) - 1)) + DigitValue(str[Len(str)])

IntOf(str) == IF str[1] = "-" THEN -Decimal(Tail(str)) ELSE Decimal(str)

\* seconds in timedelta(days=1), timedelta(hours=1), timedelta(minutes=1)
UnitSeconds(c) == IF c = "d" THEN 24 * OneHour ELSE IF c = "h" THEN OneHour ELSE 60

\* variant: the ValueError of lines 358 and 370 is raised, not only built
parse_date_info_raise(since, until, now1, now2) ==
    LET end_date == IF since = "now" THEN now2 ELSE now1
        unit == IF EndsWith(until, "d") THEN "d"
                ELSE IF EndsWith(until, "h") THEN "h"
                ELSE IF EndsWith(until, "m") THEN "m"
                ELSE "none"
    IN  IF since # "now" \/ unit \in {"none", "d"} \/ ~IsInt(Remove(until, unit))
        THEN [raised |-> TRUE]
        ELSE [raised |-> FALSE,
              start_date |-> end_date - IntOf(Remove(until, unit)) * UnitSeconds(unit),
              end_date |-> end_date]

\* now1 is datetime.now() at line 352, now2 the one at line 356
parse_date_info(since, until, now1, now2) ==
    LET end_date == IF since = "now" THEN now2 ELSE now1
        default_start == now1 - OneHour
        unit == IF EndsWith(until, "d") THEN "d"
                ELSE IF EndsWith(until, "h") THEN "h"
                ELSE IF EndsWith(until, "m") THEN "m"
                ELSE "none"
    IN  IF unit = "none"
        THEN [raised |-> FALSE, start_date |-> default_start, end_date |-> end_date]
        ELSE IF ~IsInt(Remove(until, unit))
        THEN [raised |-> TRUE]
        ELSE [raised |-> FALSE,
              start_date |-> end_date - IntOf(Remove(until, unit)) * UnitSeconds(unit),
              end_date |-> end_date]

-----------------------------------------------------------------------------
(* State machine: one request at a time (async handlers that never await) *)

NoRequest == [start_time |-> 0, end_time |-> 0, verbose |-> FALSE,
              location |-> None, measure_power |-> FALSE, lifetime |-> 0,
              fetch_hardware |-> FALSE]
NoHardware == [called |-> FALSE, file_before |-> "corrupt", calls |-> <<>>,
               raised |-> FALSE, data |-> None]
NoCsv == [called |-> FALSE]

Locals ==
    /\ req = NoRequest /\ now = 0 /\ start_time = 0 /\ end_time = 0
    /\ lifetime = RInt(0) /\ ratio = RInt(0) /\ hw = NoHardware
    /\ power_data = None /\ host_avg_consumption = None /\ usage = None
    /\ boaviztapi_data = None /\ res = None /\ csv = NoCsv

Init ==
    /\ pc = "idle"
    /\ hwFile \in FileStates
    /\ Locals

\* /query or /metrics reaches get_metrics, lines 109-120
GetMetrics ==
    /\ pc = "idle"
    /\ \E rq \in Requests, t \in Clock :
        /\ req' = rq
        /\ now' = t
        /\ IF RatioRaises(rq.start_time, rq.end_time, rq.lifetime)
           THEN /\ pc' = "failed"
                /\ UNCHANGED <<start_time, end_time, lifetime, ratio>>
           ELSE /\ pc' = "hardware"
                /\ ratio' = WindowRatio(rq.start_time, rq.end_time, rq.lifetime)
                /\ start_time' = ResolveStart(rq.start_time, t)
                /\ end_time' = ResolveEnd(rq.end_time, t)
                /\ lifetime' = EffectiveLifetime(ResolveStart(rq.start_time, t),
                                                 ResolveEnd(rq.end_time, t),
                                                 rq.lifetime)
    /\ UNCHANGED <<hwFile, hw, power_data, host_avg_consumption, usage,
                   boaviztapi_data, res, csv>>

\* line 122
GetHardwareData ==
    /\ pc = "hardware"
    /\ \E o1, o2 \in CollectorOutcomes :
        LET r == get_hardware_data(req.fetch_hardware, hwFile, o1, o2)
        IN  /\ hw' = [called |-> TRUE, file_before |-> hwFile, calls |-> r.calls,
                      raised |-> r.raised, data |-> r.data]
            /\ hwFile' = r.file
            /\ pc' = IF r.raised THEN "failed" ELSE "power"
    /\ UNCHANGED <<req, now, start_time, end_time, lifetime, ratio, power_data,
                   host_avg_consumption, usage, boaviztapi_data, res, csv>>

\* lines 124-131 with measure_power set and a readable power file
MeasurePower ==
    /\ pc = "power"
    /\ req.measure_power
    /\ \E data \in PowerFiles(start_time, end_time) :
        LET pd == get_power_data(start_time, end_time, data)
        IN  /\ power_data' = Some(KeysRead(pd))
            /\ host_avg_consumption' = Some(pd.host_avg_consumption)
            /\ res' = [emissions_calculation_data |->
                         IF "warning" \in DOMAIN pd
                         THEN "energy_consumption_warning" :> pd.warning
                         ELSE <<>>]
    /\ pc' = "impact"
    /\ UNCHANGED <<req, now, start_time, end_time, lifetime, ratio, hwFile, hw,
                   usage, boaviztapi_data, csv>>

\* line 252-254: open or json.load raises, nothing catches it
PowerFileUnreadable ==
    /\ pc = "power"
    /\ req.measure_power
    /\ pc' = "failed"
    /\ UNCHANGED <<req, now, start_time, end_time, lifetime, ratio, hwFile, hw,
                   power_data, host_avg_consumption, usage, boaviztapi_data,
                   res, csv>>

\* lines 124-127 with measure_power unset
SkipPower ==
    /\ pc = "power"
    /\ ~req.measure_power
    /\ res' = [emissions_calculation_data |-> <<>>]
    /\ host_avg_consumption' = None
    /\ pc' = "impact"
    /\ UNCHANGED <<req, now, start_time, end_time, lifetime, ratio, hwFile, hw,
                   power_data, usage, boaviztapi_data, csv>>

\* lines 133-137: the usage request is built and the service answers
QueryMachineImpact ==
    /\ pc = "impact"
    /\ usage' = Some(format_usage_request(start_time, end_time,
                                          host_avg_consumption, req.location))
    /\ \E data \in ImpactReports : boaviztapi_data' = Some(data)
    /\ pc' = "report"
    /\ UNCHANGED <<req, now, start_time, end_time, lifetime, ratio, hwFile, hw,
                   power_data, host_avg_consumption, res, csv>>

\* lines 133-137: the service call raises, nothing catches it
ImpactServiceFails ==
    /\ pc = "impact"
    /\ usage' = Some(format_usage_request(start_time, end_time,
                                          host_avg_consumption, req.location))
    /\ pc' = "failed"
    /\ UNCHANGED <<req, now, start_time, end_time, lifetime, ratio, hwFile, hw,
                   power_data, host_avg_consumption, boaviztapi_data, res, csv>>

\* lines 139-235
BuildReport ==
    /\ pc = "report"
    /\ res' = Report(res, start_time, end_time, ratio, host_avg_consumption,
                     req, hw.data, boaviztapi_data[1])
    /\ pc' = "done"
    /\ UNCHANGED <<req, now, start_time, end_time, lifetime, ratio, hwFile, hw,
                   power_data, host_avg_consumption, usage, boaviztapi_data, csv>>

\* /csv, lines 66-74: the window is parsed, then the rows are exported
Csv ==
    /\ pc = "idle"
    /\ \E since \in Sinces, until \in Untils, now1 \in Clock :
        \E now2 \in {now1, now1 + 1} :
            csv' = [called |-> TRUE, since |-> since, until |-> until,
                    now1 |-> now1, now2 |-> now2,
                    out |-> parse_date_info(since, until, now1, now2)]
    /\ pc' = "csv_done"
    /\ UNCHANGED <<req, now, start_time, end_time, lifetime, ratio, hwFile, hw,
                   power_data, host_avg_consumption, usage, boaviztapi_data, res>>

\* the response (or the error) leaves; the cache file is all that remains
Respond ==
    /\ pc \in {"done", "failed", "csv_done"}
    /\ pc' = "idle"
    /\ req' = NoRequest /\ now' = 0 /\ start_time' = 0 /\ end_time' = 0
    /\ lifetime' = RInt(0) /\ ratio' = RInt(0) /\ hw' = NoHardware
    /\ power_data' = None /\ host_avg_consumption' = None /\ usage' = None
    /\ boaviztapi_data' = None /\ res' = None /\ csv' = NoCsv
    /\ UNCHANGED hwFile

Next ==
    \/ GetMetrics
    \/ GetHardwareData
    \/ MeasurePower
    \/ PowerFileUnreadable
    \/ SkipPower
    \/ QueryMachineImpact
    \/ ImpactServiceFails
    \/ BuildReport
    \/ Csv
    \/ Respond

Spec == Init /\ [][Next]_vars

-----------------------------------------------------------------------------
(* Properties *)

\* lines 110-120 ran to the end for the request being served
WindowResolved ==
    \/ pc \in {"hardware", "power", "impact", "report", "done"}
    \/ pc = "failed" /\ hw.called

BothBoundsGiven == req.start_time # 0 /\ req.end_time # 0

\* C1: with both bounds nonzero and end_time - start_time >=
\* lifetime * seconds_in_one_year, the lifetime behind the ratio is
\* (end_time - start_time) / seconds_in_one_year, so the ratio is at most 1.0
C1_RatioAtMostOne ==
    (WindowResolved /\ BothBoundsGiven
        /\ req.end_time - req.start_time >= req.lifetime * SecondsInOneYear)
    => /\ lifetime = Frac(req.end_time - req.start_time, SecondsInOneYear)
       /\ RLeq(ratio, RInt(1))

\* C2: the ratio is 1.0 when either original bound is 0 and otherwise
\* (end_time - start_time) / (lifetime * seconds_in_one_year) of the original
\* inputs; a zero start becomes now - 3600, a zero end becomes now, nonzero
\* bounds are kept, and the report carries the resolved window
C2_RatioAndWindow ==
    WindowResolved =>
        /\ (~BothBoundsGiven => ratio.n = 1 /\ ratio.d = 1)
        /\ (BothBoundsGiven =>
               ratio = Frac(req.end_time - req.start_time,
                            req.lifetime * SecondsInOneYear))
        /\ start_time = (IF req.start_time = 0 THEN now - 3600 ELSE req.start_time)
        /\ end_time = (IF req.end_time = 0 THEN now ELSE req.end_time)
        /\ (pc = "done" => /\ res.start_time.value = start_time
                           /\ res.end_time.value = end_time)

C2_Witness ==
    /\ pc = "done"
    /\ req.start_time = 0 /\ req.end_time = 0
    /\ ratio = RInt(1)
    /\ res.start_time.value = now - 3600
    /\ res.end_time.value = now

\* C3: in every completed report embedded_emissions is gwp manufacture times
\* ratio, and calculated_emissions is embedded_emissions plus gwp use
C3_EmissionsValues ==
    pc = "done" =>
        LET gwp == boaviztapi_data[1].impacts.gwp
        IN  /\ res.embedded_emissions.value = RMul(RInt(gwp.manufacture), ratio)
            /\ res.calculated_emissions.value =
                   RAdd(res.embedded_emissions.value, RInt(gwp.use))

C3_Witness ==
    /\ pc = "done"
    /\ req.verbose /\ ~req.measure_power
    /\ ratio.d > 1
    /\ boaviztapi_data[1].impacts.gwp.use > 0
    /\ res.calculated_emissions.value # res.embedded_emissions.value

\* C4: when power is measured and get_power_data attaches its warning, the
\* returned report's emissions_calculation_data has energy_consumption_warning
\* with that text
C4_WarningCarriedForward ==
    (pc = "done" /\ req.measure_power /\ "warning" \in DOMAIN power_data[1])
    => /\ "energy_consumption_warning" \in DOMAIN res.emissions_calculation_data
       /\ res.emissions_calculation_data["energy_consumption_warning"]
              = power_data[1].warning

\* C5: get_power_data attaches the warning exactly when the window is shorter
\* than one hour (3600 seconds: none, 3599 seconds: warning)
C5_WarningIffUnderOneHour ==
    power_data # None =>
        ("warning" \in DOMAIN power_data[1] <=> end_time - start_time < 3600)

\* a location was given: the parameter is present and not empty
LocationGiven == req.location # None /\ req.location # Some("")

\* C6: the usage request has hours_electrical_consumption whenever power was
\* measured, usage_location exactly when a location was given, and always
\* hours_use_time = (end_time - start_time) / 3600
C6_UsageRequest ==
    usage # None =>
        /\ (req.measure_power => "hours_electrical_consumption" \in DOMAIN usage[1])
        /\ ("usage_location" \in DOMAIN usage[1] <=> LocationGiven)
        /\ usage[1].hours_use_time = Frac(end_time - start_time, 3600)

Count(calls, what) == Cardinality({i \in 1..Len(calls) : calls[i] = what})
Reads(calls) == Count(calls, "read_ok") + Count(calls, "read_fail")

\* C7: with fetch_hardware unset, a cache file that parses is read once and
\* the collector is not invoked; otherwise the collector runs exactly once
\* between the failed read and one re-read, and a failing re-read ends the
\* request with no further rebuild or read
C7_OneRebuildAndRetry ==
    (hw.called /\ ~req.fetch_hardware) =>
        /\ (hw.file_before = "valid" =>
               /\ hw.calls = <<"read_ok">>
               /\ ~hw.raised)
        /\ (hw.file_before # "valid" =>
               /\ Count(hw.calls, "build") = 1
               /\ Reads(hw.calls) = 2
               /\ hw.calls[1] = "read_fail" /\ hw.calls[2] = "build"
               /\ (hw.calls[3] = "read_ok" <=> hwFile = "valid")
               /\ (hw.raised <=> hwFile # "valid"))
        /\ (hw.raised => pc = "failed" /\ hw.data = None)

C7_Witness ==
    /\ hw.called /\ ~req.fetch_hardware
    /\ hw.calls = <<"read_fail", "build", "read_fail">>
    /\ hw.raised /\ pc = "failed"

\* C8: a request invokes the collector at most once, whatever fetch_hardware
\* and the reads' outcomes are; with fetch_hardware set the invocation
\* comes before the first read
C8_AtMostOneCollectorRun ==
    hw.called =>
        /\ Count(hw.calls, "build") <= 1
        /\ (req.fetch_hardware => hw.calls[1] = "build")

Has(description, piece) == \E i \in 1..Len(description) : description[i] = piece

\* C9: the carbon intensity description has the "doesn't match any existing
\* country" warning exactly for status MODIFY, the "no information was
\* provided" warning exactly for status SET, and never both
C9_LocationWarnings ==
    pc = "done" =>
        LET d == res.emissions_calculation_data.electricity_carbon_intensity.description
            status == boaviztapi_data[1].verbose.USAGE.usage_location.status
        IN  /\ (Has(d, WarningModify) <=> status = "MODIFY")
            /\ (Has(d, WarningSet) <=> status = "SET")
            /\ ~(Has(d, WarningModify) /\ Has(d, WarningSet))
            /\ Count(d, WarningModify) + Count(d, WarningSet) <= 1

C9_Witness ==
    /\ pc = "done"
    /\ boaviztapi_data[1].verbose.USAGE.usage_location.status = "SET"
    /\ Has(res.emissions_calculation_data.electricity_carbon_intensity.description,
           WarningSet)

SuffixRecognised(until) ==
    Len(until) > 0 /\ until[Len(until)] \in {"d", "h", "m"}
PrefixOf(until) == Remove(until, until[Len(until)])
SinceUnknown == csv.since # "now"
BadNumber == SuffixRecognised(csv.until) /\ ~IsInt(PrefixOf(csv.until))

\* the window parse_date_info starts from: one hour back from the clock read
\* on entry, ending at a clock reading of the call
DefaultWindow ==
    /\ csv.out.start_date = csv.now1 - 3600
    /\ csv.out.end_date \in {csv.now1, csv.now2}

\* C10 as stated: parse_date_info raises on no malformed input (unknown
\* since, unmatched until suffix, recognised suffix with a non-numeric
\* prefix), and a malformed until leaves the default window
C10_NeverRaises ==
    csv.called =>
        /\ ((SinceUnknown \/ ~SuffixRecognised(csv.until) \/ BadNumber)
               => ~csv.out.raised)
        /\ ((~SuffixRecognised(csv.until) \/ BadNumber)
               => ~csv.out.raised /\ DefaultWindow)

\* C10 amended: an unknown since alone never makes parse_date_info raise, an
\* until with an unmatched suffix returns the default window without raising,
\* and an until with suffix d/h/m whose prefix is no integer raises
C10_RaisesOnlyOnBadNumber ==
    csv.called =>
        /\ (~SuffixRecognised(csv.until) => ~csv.out.raised /\ DefaultWindow)
        /\ (csv.out.raised <=> BadNumber)

C10_Witness ==
    /\ csv.called
    /\ SinceUnknown
    /\ Len(csv.until) > 0 /\ ~SuffixRecognised(csv.until)
    /\ ~csv.out.raised
    /\ csv.out.start_date = csv.out.end_date - 3600

====
